---------------------------- MODULE Spec2Model ----------------------------
(***************************************************************************)
(* Model of the gpu_burn wrapper (gpu_burn_script.py, "Runner") and of the *)
(* SLURM epilog parser (gpu_burn_epilog_parser.py, "Parser").              *)
(*                                                                         *)
(* Text (file contents, stdout lines, captured output) is a sequence of    *)
(* one-character strings, so that JSON encoding, JSON decoding and the     *)
(* quote-escaping pass are computed character by character.                *)
(***************************************************************************)
EXTENDS Integers, Sequences, FiniteSets, TLC

(***************************************************************************)
(* Bounds of the model.                                                    *)
(***************************************************************************)
\* longest stdout the child (or a test record) produces, in characters
MaxStrLen == 1
\* largest value of -t/--time_secs
MaxDuration == 1

(***************************************************************************)
(* Characters and strings.                                                 *)
(***************************************************************************)
QUOTE == "\""
BACKSLASH == "\\"
NEWLINE == "\n"

\* characters the child's output is drawn from: a plain letter and the two
\* characters the JSON encoder escapes
Alphabet == {"s", QUOTE, BACKSLASH}

RECURSIVE StrsOfLen(_)
StrsOfLen(n) ==
    IF n = 0 THEN {<<>>}
    ELSE {Append(s, c) : s \in StrsOfLen(n - 1), c \in Alphabet}

Strs == UNION {StrsOfLen(n) : n \in 0..MaxStrLen}

Digits == <<"0", "1", "2", "3", "4", "5", "6", "7", "8", "9">>

DigitValue(c) == CHOOSE d \in 0..9 : Digits[d + 1] = c

IsDigit(c) == \E d \in 1..10 : Digits[d] = c

RECURSIVE NatToChars(_)
NatToChars(n) ==
    IF n < 10 THEN <<Digits[n + 1]>>
    ELSE Append(NatToChars(n \div 10), Digits[(n % 10) + 1])

\* str(n) / the JSON encoder's int.__repr__
IntToChars(n) == IF n < 0 THEN <<"-">> \o NatToChars(0 - n) ELSE NatToChars(n)

(***************************************************************************)
(* JSON values (what json.loads returns and json.dumps takes).  Every      *)
(* value has the same four fields; t says which of them is meaningful.     *)
(***************************************************************************)
JInt(n) == [t |-> "int", n |-> n, s |-> <<>>, items |-> <<>>]
JStr(s) == [t |-> "str", n |-> 0, s |-> s, items |-> <<>>]
JBool(b) == [t |-> "bool", n |-> IF b THEN 1 ELSE 0, s |-> <<>>, items |-> <<>>]
JNull == [t |-> "null", n |-> 0, s |-> <<>>, items |-> <<>>]
\* a list: items is a sequence of values
JArr(items) == [t |-> "arr", n |-> 0, s |-> <<>>, items |-> items]
\* a dict: items is a sequence of members [k |-> key, v |-> value], in
\* insertion order
JObj(members) == [t |-> "obj", n |-> 0, s |-> <<>>, items |-> members]

HasKey(members, k) == \E i \in 1..Len(members) : members[i].k = k

\* d[k] for a key that is present
Lookup(members, k) ==
    members[CHOOSE i \in 1..Len(members) : members[i].k = k].v

\* d[k] = v: a present key keeps its place and takes the new value
DictSet(members, k, v) ==
    IF HasKey(members, k)
    THEN [i \in 1..Len(members) |->
            IF members[i].k = k THEN [k |-> k, v |-> v] ELSE members[i]]
    ELSE Append(members, [k |-> k, v |-> v])

(***************************************************************************)
(* json.dumps with the default separators (", " and ": ").                 *)
(***************************************************************************)
EscapeChar(c) ==
    IF c = QUOTE THEN <<BACKSLASH, QUOTE>>
    ELSE IF c = BACKSLASH THEN <<BACKSLASH, BACKSLASH>>
    ELSE IF c = NEWLINE THEN <<BACKSLASH, "n">>
    ELSE <<c>>

\* the escaped characters of s[lo..hi], by halves
RECURSIVE EscapeRange(_, _, _)
EscapeRange(s, lo, hi) ==
    IF lo > hi THEN <<>>
    ELSE IF lo = hi THEN EscapeChar(s[lo])
    ELSE EscapeRange(s, lo, (lo + hi) \div 2)
         \o EscapeRange(s, ((lo + hi) \div 2) + 1, hi)

\* py_encode_basestring_ascii
EncodeString(s) == <<QUOTE>> \o EscapeRange(s, 1, Len(s)) \o <<QUOTE>>

RECURSIVE dumps(_)
RECURSIVE DumpItems(_, _)
RECURSIVE DumpMembers(_, _)
DumpItems(items, i) ==
    IF i > Len(items) THEN <<>>
    ELSE (IF i > 1 THEN <<",", " ">> ELSE <<>>)
         \o dumps(items[i]) \o DumpItems(items, i + 1)

DumpMembers(members, i) ==
    IF i > Len(members) THEN <<>>
    ELSE (IF i > 1 THEN <<",", " ">> ELSE <<>>)
         \o EncodeString(members[i].k) \o <<":", " ">>
         \o dumps(members[i].v) \o DumpMembers(members, i + 1)

dumps(v) ==
    CASE v.t = "int" -> IntToChars(v.n)
      [] v.t = "str" -> EncodeString(v.s)
      [] v.t = "null" -> <<"n", "u", "l", "l">>
      [] v.t = "bool" -> IF v.n = 1 THEN <<"t", "r", "u", "e">>
                         ELSE <<"f", "a", "l", "s", "e">>
      [] v.t = "arr" -> <<"[">> \o DumpItems(v.items, 1) \o <<"]">>
      [] v.t = "obj" -> <<"{">> \o DumpMembers(v.items, 1) \o <<"}">>

(***************************************************************************)
(* json.loads.  A scan returns [ok, val, pos]: whether it succeeded, the   *)
(* value, and the index of the first character after it.  Numbers are      *)
(* integers only (the records carry no fraction or exponent) and the       *)
(* string escapes are those of the characters of the model.                *)
(***************************************************************************)
Fail == [ok |-> FALSE, val |-> JNull, pos |-> 0]
Got(v, p) == [ok |-> TRUE, val |-> v, pos |-> p]

IsSpace(c) == c \in {" ", NEWLINE}

RECURSIVE SkipWs(_, _)
SkipWs(txt, i) ==
    IF i <= Len(txt) /\ IsSpace(txt[i]) THEN SkipWs(txt, i + 1) ELSE i

At(txt, i, c) == i <= Len(txt) /\ txt[i] = c

\* whether the characters of word stand at txt[i..]
Matches(txt, i, word) ==
    /\ i + Len(word) - 1 <= Len(txt)
    /\ \A j \in 1..Len(word) : txt[i + j - 1] = word[j]

\* the number of backslashes that stand right before txt[k], from index i on
RECURSIVE BackslashRun(_, _, _)
BackslashRun(txt, i, k) ==
    IF k > i /\ txt[k - 1] = BACKSLASH THEN 1 + BackslashRun(txt, i, k - 1)
    ELSE 0

\* in a string that starts at index i: txt[k] is a backslash that starts an
\* escape, txt[k] is the character an escape names
StartsEscape(txt, i, k) ==
    txt[k] = BACKSLASH /\ BackslashRun(txt, i, k) % 2 = 0
IsEscaped(txt, i, k) == k > i /\ StartsEscape(txt, i, k - 1)

\* the characters txt[lo..hi] of a string that starts at index i stand
\* for, by halves
RECURSIVE Unescape(_, _, _, _)
Unescape(txt, i, lo, hi) ==
    IF lo > hi THEN <<>>
    ELSE IF lo = hi THEN
        IF IsEscaped(txt, i, lo)
        THEN <<IF txt[lo] = "n" THEN NEWLINE ELSE txt[lo]>>
        ELSE IF txt[lo] = BACKSLASH THEN <<>>
        ELSE <<txt[lo]>>
    ELSE Unescape(txt, i, lo, (lo + hi) \div 2)
         \o Unescape(txt, i, ((lo + hi) \div 2) + 1, hi)

\* scanstring, i being the index after the opening quote: the string ends
\* at the first double quote that no escape names; an escape of another
\* character than the model's, or a raw line break, is an error
ScanString(txt, i) ==
    LET closing == {k \in i..Len(txt) : txt[k] = QUOTE /\ ~IsEscaped(txt, i, k)}
    IN  IF closing = {} THEN Fail
        ELSE LET j == CHOOSE k \in closing : \A m \in closing : k <= m IN
             IF \E k \in i..(j - 1) :
                    \/ txt[k] = NEWLINE
                    \/ /\ IsEscaped(txt, i, k)
                       /\ txt[k] \notin {QUOTE, BACKSLASH, "/", "n"}
             THEN Fail
             ELSE Got(JStr(Unescape(txt, i, i, j - 1)), j + 1)

RECURSIVE ScanDigits(_, _, _)
ScanDigits(txt, i, acc) ==
    IF i <= Len(txt) /\ IsDigit(txt[i])
    THEN ScanDigits(txt, i + 1, 10 * acc + DigitValue(txt[i]))
    ELSE Got(JInt(acc), i)

\* NUMBER_RE: -?(0|[1-9][0-9]*)
ScanNumber(txt, i) ==
    LET neg == At(txt, i, "-")
        j == IF neg THEN i + 1 ELSE i
        mag == IF j > Len(txt) \/ ~IsDigit(txt[j]) THEN Fail
               ELSE IF txt[j] = "0" THEN Got(JInt(0), j + 1)
               ELSE ScanDigits(txt, j, 0)
    IN  IF ~mag.ok THEN Fail
        ELSE IF neg THEN Got(JInt(0 - mag.val.n), mag.pos)
        ELSE mag

RECURSIVE ScanValue(_, _)
RECURSIVE ScanArray(_, _, _)
RECURSIVE ScanObject(_, _, _)
\* JSONArray after "[" and its whitespace: i is at an element
ScanArray(txt, i, acc) ==
    LET e == ScanValue(txt, i) IN
    IF ~e.ok THEN Fail
    ELSE LET j == SkipWs(txt, e.pos)
             items == Append(acc, e.val)
         IN  IF At(txt, j, "]") THEN Got(JArr(items), j + 1)
             ELSE IF At(txt, j, ",") THEN ScanArray(txt, SkipWs(txt, j + 1), items)
             ELSE Fail

\* JSONObject after "{" and its whitespace: i is at a key's opening quote
ScanObject(txt, i, acc) ==
    IF ~At(txt, i, QUOTE) THEN Fail
    ELSE LET k == ScanString(txt, i + 1) IN
    IF ~k.ok THEN Fail
    ELSE LET c == SkipWs(txt, k.pos) IN
    IF ~At(txt, c, ":") THEN Fail
    ELSE LET e == ScanValue(txt, SkipWs(txt, c + 1)) IN
    IF ~e.ok THEN Fail
    ELSE LET j == SkipWs(txt, e.pos)
             members == DictSet(acc, k.val.s, e.val)
         IN  IF At(txt, j, "}") THEN Got(JObj(members), j + 1)
             ELSE IF At(txt, j, ",") THEN ScanObject(txt, SkipWs(txt, j + 1), members)
             ELSE Fail

\* scan_once
ScanValue(txt, i) ==
    IF i > Len(txt) THEN Fail
    ELSE IF txt[i] = QUOTE THEN ScanString(txt, i + 1)
    ELSE IF txt[i] = "{" THEN
        LET j == SkipWs(txt, i + 1) IN
        IF At(txt, j, "}") THEN Got(JObj(<<>>), j + 1) ELSE ScanObject(txt, j, <<>>)
    ELSE IF txt[i] = "[" THEN
        LET j == SkipWs(txt, i + 1) IN
        IF At(txt, j, "]") THEN Got(JArr(<<>>), j + 1) ELSE ScanArray(txt, j, <<>>)
    ELSE IF Matches(txt, i, <<"n", "u", "l", "l">>) THEN Got(JNull, i + 4)
    ELSE IF Matches(txt, i, <<"t", "r", "u", "e">>) THEN Got(JBool(TRUE), i + 4)
    ELSE IF Matches(txt, i, <<"f", "a", "l", "s", "e">>) THEN Got(JBool(FALSE), i + 5)
    ELSE ScanNumber(txt, i)

\* json.loads: ok is FALSE when it raises JSONDecodeError (no value, or
\* extra data after the value)
loads(txt) ==
    LET r == ScanValue(txt, SkipWs(txt, 1)) IN
    IF ~r.ok THEN Fail
    ELSE IF SkipWs(txt, r.pos) # Len(txt) + 1 THEN Fail
    ELSE r

(***************************************************************************)
(* The Runner: gpu_burn_script.py.                                         *)
(***************************************************************************)
GPU_BURN_ROOT == "/usr/lib/gpu_burn"

\* directories the Runner may be started from
StartDirs == {"/home", GPU_BURN_ROOT}

\* what the root directory may hold: nothing at all (dir FALSE), or a
\* directory with or without each of the two files
FsStates ==
    {f \in [dir : BOOLEAN, binary : BOOLEAN, ptx : BOOLEAN] :
        ~f.dir => (~f.binary /\ ~f.ptx)}

\* values of the positional gpu_burn_arguments
ArgLists == {<<>>, << <<"-", "d">> >>}

\* what the child may write to stderr
ChildErrs == {<<>>, <<"e">>}

\* subprocess's returncode of a child that ended: its exit status, or the
\* negated number of the signal that killed it
ChildCodes == {0, 1, 255, 0 - 9}

\* a child runs for 0..MaxRuntime seconds: long enough to outlast every
\* timeout the durations give
MaxRuntime == 2 * MaxDuration + 1

NoExc == [type |-> "none", msg |-> "", cause |-> "none"]
Exc(type, msg) == [type |-> type, msg |-> msg, cause |-> "none"]

NoResult == [stdout |-> <<>>, stderr |-> <<>>, returncode |-> 0]

VARIABLES
    fs,                     \* what validation found at the root directory
    cwd,                    \* the process-wide current working directory
    rpc,                    \* the Runner's position
    savedCwd,               \* execute_gpu_burn's local cwd (<<>>: not yet set)
    cwdTrace,               \* the values cwd took since execute_gpu_burn's entry
    time_secs,              \* main's time_secs
    gpu_burn_arguments,     \* main's gpu_burn_arguments
    timeout_threshold_secs, \* execute_gpu_burn's timeout_threshold_secs
    childState,             \* none | running | exited | killed
    childRuntime,           \* seconds the child needs to finish
    childOut,               \* what the child itself wrote and returned
    elapsed,                \* seconds since the child was started
    launches,               \* calls of subprocess.run so far
    result,                 \* (stdout, stderr, returncode) of run_shell_command
    exc,                    \* the exception in flight or that ended the Runner
    rstdout,                \* what the Runner printed to its stdout
    rexit,                  \* the Runner's exit status (<<>>: still running)
    fileSrc,                \* where the Parser's input file comes from
    record,                 \* the value the input file encodes, if any
    file,                   \* the contents of the Parser's input file
    ppc,                    \* per -o flag: the Parser's position
    ploaded,                \* per -o flag: main_impl's gpu_burn_output
    pstdout,                \* per -o flag: what the Parser printed
    pret,                   \* per -o flag: main_impl's return value (<<>>: none)
    pexc,                   \* per -o flag: the exception that ended the Parser
    pexit                   \* per -o flag: the Parser's exit status (<<>>: none)

runnerVars ==
    <<fs, cwd, rpc, savedCwd, cwdTrace, time_secs, gpu_burn_arguments,
      timeout_threshold_secs, childState, childRuntime, childOut, elapsed,
      launches, result, exc, rstdout, rexit>>
fileVars == <<fileSrc, record, file>>
parserVars == <<ppc, ploaded, pstdout, pret, pexc, pexit>>
vars == <<runnerVars, fileVars, parserVars>>

\* faulty variant of valid_gpu_burn_path: the check of compare.ptx is left out
valid_gpu_burn_path_no_ptx(f) ==
    IF ~f.dir THEN Exc("FileNotFoundError", "The gpu_burn folder does not exist")
    ELSE IF ~f.binary THEN Exc("FileNotFoundError", "The gpu_burn binary is not found")
    ELSE NoExc

\* valid_gpu_burn_path: the exception it raises, NoExc when it returns
valid_gpu_burn_path(f) ==
    IF ~f.dir THEN Exc("FileNotFoundError", "The gpu_burn folder does not exist")
    ELSE IF ~f.binary THEN Exc("FileNotFoundError", "The gpu_burn binary is not found")
    ELSE IF ~f.ptx THEN Exc("FileNotFoundError", "The compare.ptx file is not found")
    ELSE NoExc

\* faulty variant of TimeoutThreshold: the duration itself is the bound
TimeoutThresholdSame(t) == t

\* timeout_threshold_secs = 2 * time_secs
TimeoutThreshold(t) == 2 * t

\* str(e) of subprocess.TimeoutExpired, the repr of the command left out
TimeoutExpiredStr(t) ==
    <<"C", "o", "m", "m", "a", "n", "d", " ", "t", "i", "m", "e", "d", " ",
      "o", "u", "t", " ", "a", "f", "t", "e", "r", " ">>
    \o IntToChars(t) \o <<" ", "s", "e", "c", "o", "n", "d", "s">>

\* run_shell_command's error_msg
error_msg(t) ==
    <<"P", "r", "o", "c", "e", "s", "s", " ", "e", "x", "c", "e", "e", "d",
      "e", "d", " ", "t", "i", "m", "e", " ", "o", "u", "t", " ", "t", "h",
      "r", "e", "s", "h", "o", "l", "d", " ", "a", "f", "t", "e", "r", " ",
      "r", "u", "n", "n", "i", "n", "g", " ", "f", "o", "r", " ", "m", "o",
      "r", "e", " ", "t", "h", "a", "n", " ">>
    \o IntToChars(t)
    \o <<" ", "s", "e", "c", "o", "n", "d", "s", ";", " ", "g", "o", "t", " ",
         "e", "x", "c", "e", "p", "t", "i", "o", "n", " ", "m", "e", "s", "s",
         "a", "g", "e", ":", " ">>
    \o TimeoutExpiredStr(t)

\* faulty variant of TimeoutResult: a timeout reported as exit code 124, as
\* timeout(1) does
TimeoutResult124(t) == [stdout |-> <<>>, stderr |-> error_msg(t), returncode |-> 124]

\* what run_shell_command returns when subprocess.TimeoutExpired is caught
TimeoutResult(t) == [stdout |-> <<>>, stderr |-> error_msg(t), returncode |-> 0]

RECURSIVE StrItems(_, _)
StrItems(strs, i) ==
    IF i > Len(strs) THEN <<>> ELSE <<JStr(strs[i])>> \o StrItems(strs, i + 1)

\* main's output dictionary
OutputDict(t, args, res) ==
    JObj(<< [k |-> <<"g", "p", "u", "_", "b", "u", "r", "n", "_", "t", "i", "m", "e">>,
             v |-> JInt(t)],
            [k |-> <<"g", "p", "u", "_", "b", "u", "r", "n", "_", "a", "r", "g",
                     "u", "m", "e", "n", "t", "s">>,
             v |-> JArr(StrItems(args, 1))],
            [k |-> <<"s", "t", "d", "o", "u", "t">>, v |-> JStr(res.stdout)],
            [k |-> <<"s", "t", "d", "e", "r", "r">>, v |-> JStr(res.stderr)],
            [k |-> <<"r", "e", "t", "u", "r", "n", "c", "o", "d", "e">>,
             v |-> JInt(res.returncode)] >>)

\* main, up to parser.parse_args: argparse applies type=valid_gpu_burn_path
\* to --gpu_burn_root, which reads the root directory (f: what is there); a
\* FileNotFoundError is not one argparse catches, so the process ends with
\* a traceback and status 1
ParseArgs ==
    /\ rpc = "start"
    /\ fileSrc = "none"
    /\ \E f \in FsStates, t \in 0..MaxDuration, args \in ArgLists :
        /\ cwd = GPU_BURN_ROOT => f.dir
        /\ fs' = f
        /\ LET e == valid_gpu_burn_path(f) IN
            IF e.type # "none"
            THEN /\ rpc' = "aborted"
                 /\ exc' = e
                 /\ rexit' = <<1>>
                 /\ UNCHANGED <<time_secs, gpu_burn_arguments>>
            ELSE /\ rpc' = "validated"
                 /\ time_secs' = t
                 /\ gpu_burn_arguments' = args
                 /\ UNCHANGED <<exc, rexit>>
    /\ UNCHANGED <<cwd, savedCwd, cwdTrace, timeout_threshold_secs,
                   childState, childRuntime, childOut, elapsed, launches,
                   result, rstdout>>
    /\ UNCHANGED <<fileVars, parserVars>>

\* execute_gpu_burn: cwd = os.getcwd(); os.chdir(gpu_burn_path).  The chdir
\* is outside the try: when it raises (no permission to enter the
\* directory) the working directory has not changed
Enter ==
    /\ rpc = "validated"
    /\ savedCwd' = <<cwd>>
    /\ \E entered \in BOOLEAN :
        IF entered
        THEN /\ cwd' = GPU_BURN_ROOT
             /\ cwdTrace' = {cwd, GPU_BURN_ROOT}
             /\ rpc' = "entered"
             /\ UNCHANGED <<exc, rexit>>
        ELSE /\ cwdTrace' = {cwd}
             /\ rpc' = "aborted"
             /\ exc' = Exc("PermissionError", "chdir")
             /\ rexit' = <<1>>
             /\ UNCHANGED cwd
    /\ UNCHANGED <<fs, time_secs, gpu_burn_arguments, timeout_threshold_secs,
                   childState, childRuntime, childOut, elapsed, launches,
                   result, rstdout>>
    /\ UNCHANGED <<fileVars, parserVars>>

\* execute_gpu_burn's try block up to run_shell_command's subprocess.run:
\* the child starts, or starting it raises (the binary cannot be executed)
Launch ==
    /\ rpc = "entered"
    /\ timeout_threshold_secs' = TimeoutThreshold(time_secs)
    /\ launches' = launches + 1
    /\ \/ \E r \in 0..MaxRuntime :
            /\ childState' = "running"
            /\ childRuntime' = r
            /\ elapsed' = 0
            /\ rpc' = "running"
            /\ UNCHANGED exc
       \/ /\ rpc' = "raised"
          /\ exc' = Exc("OSError", "exec")
          /\ UNCHANGED <<childState, childRuntime, elapsed>>
    /\ UNCHANGED <<fs, cwd, savedCwd, cwdTrace, time_secs, gpu_burn_arguments,
                   childOut, result, rstdout, rexit>>
    /\ UNCHANGED <<fileVars, parserVars>>

\* a second passes while subprocess.run waits for the child
Tick ==
    /\ rpc = "running"
    /\ childState = "running"
    /\ elapsed < childRuntime
    /\ elapsed < timeout_threshold_secs
    /\ elapsed' = elapsed + 1
    /\ UNCHANGED <<fs, cwd, rpc, savedCwd, cwdTrace, time_secs,
                   gpu_burn_arguments, timeout_threshold_secs, childState,
                   childRuntime, childOut, launches, result, exc, rstdout,
                   rexit>>
    /\ UNCHANGED <<fileVars, parserVars>>

\* the child ends by itself and run_shell_command returns what it observed
ChildExit ==
    /\ rpc = "running"
    /\ childState = "running"
    /\ elapsed = childRuntime
    /\ \E out \in Strs, err \in ChildErrs, rc \in ChildCodes :
        /\ childOut' = [stdout |-> out, stderr |-> err, returncode |-> rc]
        /\ result' = [stdout |-> out, stderr |-> err, returncode |-> rc]
    /\ childState' = "exited"
    /\ rpc' = "collected"
    /\ UNCHANGED <<fs, cwd, savedCwd, cwdTrace, time_secs, gpu_burn_arguments,
                   timeout_threshold_secs, childRuntime, elapsed, launches,
                   exc, rstdout, rexit>>
    /\ UNCHANGED <<fileVars, parserVars>>

\* the child ends by itself but its output is not UTF-8: subprocess.run
\* raises UnicodeDecodeError, which run_shell_command does not catch
ChildOutputUndecodable ==
    /\ rpc = "running"
    /\ childState = "running"
    /\ elapsed = childRuntime
    /\ childState' = "exited"
    /\ rpc' = "raised"
    /\ exc' = Exc("UnicodeDecodeError", "decode")
    /\ UNCHANGED <<fs, cwd, savedCwd, cwdTrace, time_secs, gpu_burn_arguments,
                   timeout_threshold_secs, childRuntime, childOut, elapsed,
                   launches, result, rstdout, rexit>>
    /\ UNCHANGED <<fileVars, parserVars>>

\* the timeout passes with the child still running: subprocess.run kills
\* it and raises TimeoutExpired, which run_shell_command catches
TimeoutExpired ==
    /\ rpc = "running"
    /\ childState = "running"
    /\ elapsed >= timeout_threshold_secs
    /\ childState' = "killed"
    /\ result' = TimeoutResult(timeout_threshold_secs)
    /\ rpc' = "collected"
    /\ UNCHANGED <<fs, cwd, savedCwd, cwdTrace, time_secs, gpu_burn_arguments,
                   timeout_threshold_secs, childRuntime, childOut, elapsed,
                   launches, exc, rstdout, rexit>>
    /\ UNCHANGED <<fileVars, parserVars>>

\* faulty variant of Except: the error is recovered like a timeout, as a
\* result with the message as stderr
ExceptRecovers ==
    /\ rpc = "raised"
    /\ exc' = NoExc
    /\ result' = [stdout |-> <<>>, stderr |-> <<"F", "a", "i", "l", "e", "d">>,
                  returncode |-> 1]
    /\ rpc' = "collected"
    /\ UNCHANGED <<fs, cwd, savedCwd, cwdTrace, time_secs, gpu_burn_arguments,
                   timeout_threshold_secs, childState, childRuntime, childOut,
                   elapsed, launches, rstdout, rexit>>
    /\ UNCHANGED <<fileVars, parserVars>>

\* execute_gpu_burn's except clause: raise RuntimeError(error_msg)
Except ==
    /\ rpc = "raised"
    /\ exc' = [type |-> "RuntimeError",
               msg |-> "Failed to run gpu_burn binary",
               cause |-> exc.type]
    /\ rpc' = "wrapped"
    /\ UNCHANGED <<fs, cwd, savedCwd, cwdTrace, time_secs, gpu_burn_arguments,
                   timeout_threshold_secs, childState, childRuntime, childOut,
                   elapsed, launches, result, rstdout, rexit>>
    /\ UNCHANGED <<fileVars, parserVars>>

\* faulty variant of Finally: os.chdir(cwd) placed after the try statement,
\* where only a normal completion reaches it
FinallyOnSuccessOnly ==
    /\ rpc \in {"collected", "wrapped"}
    /\ IF rpc = "collected"
       THEN /\ cwd' = savedCwd[1]
            /\ cwdTrace' = cwdTrace \cup {savedCwd[1]}
            /\ rpc' = "returned"
            /\ UNCHANGED rexit
       ELSE /\ rpc' = "aborted"
            /\ rexit' = <<1>>
            /\ UNCHANGED <<cwd, cwdTrace>>
    /\ childRuntime' = 0
    /\ elapsed' = 0
    /\ UNCHANGED <<fs, savedCwd, time_secs, gpu_burn_arguments,
                   timeout_threshold_secs, childState, childOut,
                   launches, result, exc, rstdout>>
    /\ UNCHANGED <<fileVars, parserVars>>

\* execute_gpu_burn's finally clause, os.chdir(cwd), and what follows it:
\* the return to main, or the RuntimeError leaving main (a traceback and
\* status 1).  The child is gone by now and its clock is dropped
Finally ==
    /\ rpc \in {"collected", "wrapped"}
    /\ cwd' = savedCwd[1]
    /\ cwdTrace' = cwdTrace \cup {savedCwd[1]}
    /\ IF rpc = "collected"
       THEN rpc' = "returned" /\ UNCHANGED rexit
       ELSE rpc' = "aborted" /\ rexit' = <<1>>
    /\ childRuntime' = 0
    /\ elapsed' = 0
    /\ UNCHANGED <<fs, savedCwd, time_secs, gpu_burn_arguments,
                   timeout_threshold_secs, childState, childOut,
                   launches, result, exc, rstdout>>
    /\ UNCHANGED <<fileVars, parserVars>>

\* faulty variant of PrintOutput: the script ends with sys.exit(returncode)
PrintOutputExitsWithCode ==
    /\ rpc = "returned"
    /\ LET output == OutputDict(time_secs, gpu_burn_arguments, result) IN
        /\ rstdout' = dumps(output) \o <<NEWLINE>>
        /\ file' = dumps(output) \o <<NEWLINE>>
        /\ record' = output
    /\ fileSrc' = "runner"
    /\ rpc' = "done"
    /\ rexit' = <<result.returncode % 256>>
    /\ UNCHANGED <<fs, cwd, savedCwd, cwdTrace, time_secs, gpu_burn_arguments,
                   timeout_threshold_secs, childState, childRuntime, childOut,
                   elapsed, launches, result, exc>>
    /\ UNCHANGED parserVars

\* main: print(json.dumps(output)), and the end of the script (status 0).
\* The printed line is what the Parser is given to read
PrintOutput ==
    /\ rpc = "returned"
    /\ LET output == OutputDict(time_secs, gpu_burn_arguments, result) IN
        /\ rstdout' = dumps(output) \o <<NEWLINE>>
        /\ file' = dumps(output) \o <<NEWLINE>>
        /\ record' = output
    /\ fileSrc' = "runner"
    /\ rpc' = "done"
    /\ rexit' = <<0>>
    /\ UNCHANGED <<fs, cwd, savedCwd, cwdTrace, time_secs, gpu_burn_arguments,
                   timeout_threshold_secs, childState, childRuntime, childOut,
                   elapsed, launches, result, exc>>
    /\ UNCHANGED parserVars

(***************************************************************************)
(* The Parser's input files that do not come from the Runner: the records  *)
(* unittests.py generates, and hand-written files.                         *)
(***************************************************************************)
RETURNCODE == <<"r", "e", "t", "u", "r", "n", "c", "o", "d", "e">>

\* generate_test_input_gpu_burn_epilog_parser's output dictionary; the
\* tests pass gpu_burn_arguments as one string
generate_test_input_gpu_burn_epilog_parser(t, args, out, err, rc) ==
    JObj(<< [k |-> <<"g", "p", "u", "_", "b", "u", "r", "n", "_", "t", "i", "m", "e">>,
             v |-> JInt(t)],
            [k |-> <<"g", "p", "u", "_", "b", "u", "r", "n", "_", "a", "r", "g",
                     "u", "m", "e", "n", "t", "s">>,
             v |-> JStr(args)],
            [k |-> <<"s", "t", "d", "o", "u", "t">>, v |-> JStr(out)],
            [k |-> <<"s", "t", "d", "e", "r", "r">>, v |-> JStr(err)],
            [k |-> RETURNCODE, v |-> JInt(rc)] >>)

\* the returncode values of the test cases, with values outside 0..255
TestCodes == {0, 1, 124, 255, 256, 0 - 9}

TestRecords ==
    {generate_test_input_gpu_burn_epilog_parser(60, args, out, err, rc) :
        args \in {<<>>, <<"-", "d">>},
        out \in Strs,
        err \in {<<>>, <<"e", "r", "r", "o", "r">>},
        rc \in TestCodes}

\* JSON objects with no returncode member
LackingObjects ==
    { JObj(<<>>),
      JObj(<< [k |-> <<"s", "t", "d", "o", "u", "t">>, v |-> JStr(<<"s">>)] >>),
      JObj(<< [k |-> <<"r", "c">>, v |-> JInt(1)],
              [k |-> <<"s", "t", "d", "e", "r", "r">>, v |-> JStr(<<QUOTE>>)] >>) }

\* valid JSON that is not what the Runner prints: the record of the field
\* alone, a returncode that is not a number, a value that is not an object
OddValues ==
    { JObj(<< [k |-> RETURNCODE, v |-> JInt(7)] >>),
      JObj(<< [k |-> RETURNCODE, v |-> JStr(<<"7">>)] >>),
      JObj(<< [k |-> RETURNCODE, v |-> JStr(<<" ", "-", "0", "3", " ">>)] >>),
      JObj(<< [k |-> RETURNCODE, v |-> JStr(<<"s">>)] >>),
      JObj(<< [k |-> RETURNCODE, v |-> JBool(TRUE)] >>),
      JObj(<< [k |-> RETURNCODE, v |-> JNull] >>),
      JArr(<<JInt(1)>>),
      JStr(RETURNCODE),
      JInt(3) }

MinimalText == dumps(JObj(<< [k |-> RETURNCODE, v |-> JInt(1)] >>))

\* texts that are not JSON: an empty file, a record cut short, a record
\* followed by more text, a record with a raw line break in a string
InvalidTexts ==
    { <<>>,
      SubSeq(MinimalText, 1, Len(MinimalText) - 1),
      MinimalText \o <<" ", "x">>,
      <<"{", QUOTE, "r", NEWLINE, QUOTE, ":", " ", "1", "}">>,
      <<"{", "r", "e", "t", "u", "r", "n", "c", "o", "d", "e", ":", " ", "1", "}">> }

(***************************************************************************)
(* The Parser: gpu_burn_epilog_parser.py.                                  *)
(***************************************************************************)
\* txt[lo..hi].replace('"', '\\"'), by halves
RECURSIVE ReplaceQuotes(_, _, _)
ReplaceQuotes(txt, lo, hi) ==
    IF lo > hi THEN <<>>
    ELSE IF lo = hi
    THEN (IF txt[lo] = QUOTE THEN <<BACKSLASH, QUOTE>> ELSE <<txt[lo]>>)
    ELSE ReplaceQuotes(txt, lo, (lo + hi) \div 2)
         \o ReplaceQuotes(txt, ((lo + hi) \div 2) + 1, hi)

\* json.dumps(gpu_burn_output).replace('"', '\\"')
EchoLine(gpu_burn_output) ==
    LET txt == dumps(gpu_burn_output) IN ReplaceQuotes(txt, 1, Len(txt))

Raises(type) == [ok |-> FALSE, n |-> 0, exc |-> type]
Returns(n) == [ok |-> TRUE, n |-> n, exc |-> "none"]

RECURSIVE StripLeft(_)
StripLeft(s) == IF s # <<>> /\ IsSpace(Head(s)) THEN StripLeft(Tail(s)) ELSE s

RECURSIVE StripRight(_)
StripRight(s) ==
    IF s # <<>> /\ IsSpace(s[Len(s)]) THEN StripRight(SubSeq(s, 1, Len(s) - 1))
    ELSE s

RECURSIVE DigitsValue(_, _)
DigitsValue(s, acc) ==
    IF s = <<>> THEN acc ELSE DigitsValue(Tail(s), 10 * acc + DigitValue(Head(s)))

\* int(s) of a str: surrounding whitespace, a sign, decimal digits
IntOfStr(s) ==
    LET body == StripRight(StripLeft(s))
        signed == body # <<>> /\ Head(body) \in {"-", "+"}
        digits == IF signed THEN Tail(body) ELSE body
    IN  IF digits = <<>> \/ \E i \in 1..Len(digits) : ~IsDigit(digits[i])
        THEN Raises("ValueError")
        ELSE IF signed /\ Head(body) = "-"
        THEN Returns(0 - DigitsValue(digits, 0))
        ELSE Returns(DigitsValue(digits, 0))

\* int(x)
IntOf(x) ==
    IF x.t \in {"int", "bool"} THEN Returns(x.n)
    ELSE IF x.t = "str" THEN IntOfStr(x.s)
    ELSE Raises("TypeError")

\* faulty variant of returncode_of: the code reduced to a 0 or 1 flag
returncode_flag(gpu_burn_output) ==
    IF gpu_burn_output.t # "obj" THEN Raises("TypeError")
    ELSE IF ~HasKey(gpu_burn_output.items, RETURNCODE) THEN Raises("KeyError")
    ELSE LET r == IntOf(Lookup(gpu_burn_output.items, RETURNCODE)) IN
         IF r.ok /\ r.n # 0 THEN Returns(1) ELSE r

\* faulty variant of returncode_of: gpu_burn_output.get("returncode", 0)
returncode_default(gpu_burn_output) ==
    IF gpu_burn_output.t # "obj" THEN Raises("TypeError")
    ELSE IF ~HasKey(gpu_burn_output.items, RETURNCODE) THEN Returns(0)
    ELSE IntOf(Lookup(gpu_burn_output.items, RETURNCODE))

\* int(gpu_burn_output["returncode"])
returncode_of(gpu_burn_output) ==
    IF gpu_burn_output.t # "obj" THEN Raises("TypeError")
    ELSE IF ~HasKey(gpu_burn_output.items, RETURNCODE) THEN Raises("KeyError")
    ELSE IntOf(Lookup(gpu_burn_output.items, RETURNCODE))

\* the status the operating system keeps of sys.exit(code)
ExitStatus(code) == code % 256

\* the temporary file of the tests, or a hand-written file, is put where
\* the Parser's -p points
WriteFile ==
    /\ fileSrc = "none"
    /\ rpc = "start"
    /\ \/ \E r \in TestRecords :
            fileSrc' = "test" /\ record' = r /\ file' = dumps(r)
       \/ \E r \in LackingObjects :
            fileSrc' = "lacking" /\ record' = r /\ file' = dumps(r)
       \/ \E r \in OddValues :
            fileSrc' = "odd" /\ record' = r /\ file' = dumps(r)
       \/ \E txt \in InvalidTexts :
            fileSrc' = "invalid" /\ record' = JNull /\ file' = txt
    /\ UNCHANGED <<runnerVars, parserVars>>

\* main_impl: gpu_burn_output = json.loads(path.read()); a decode error is
\* not caught and ends the process with a traceback and status 1
PLoad(o) ==
    /\ fileSrc # "none"
    /\ ppc[o] = "start"
    /\ LET r == loads(file) IN
        IF r.ok
        THEN /\ ploaded' = [ploaded EXCEPT ![o] = r.val]
             /\ ppc' = [ppc EXCEPT ![o] = "loaded"]
             /\ UNCHANGED <<pexc, pexit>>
        ELSE /\ ppc' = [ppc EXCEPT ![o] = "failed"]
             /\ pexc' = [pexc EXCEPT ![o] = "JSONDecodeError"]
             /\ pexit' = [pexit EXCEPT ![o] = <<1>>]
             /\ UNCHANGED ploaded
    /\ UNCHANGED <<pstdout, pret>>
    /\ UNCHANGED <<runnerVars, fileVars>>

\* faulty variant of PEcho: the echo branch returns 0 by itself
PEchoReturnsZero(o) ==
    /\ ppc[o] = "loaded"
    /\ o
    /\ pstdout' = [pstdout EXCEPT ![o] = EchoLine(ploaded[o]) \o <<NEWLINE>>]
    /\ pret' = [pret EXCEPT ![o] = <<0>>]
    /\ ppc' = [ppc EXCEPT ![o] = "returned"]
    /\ UNCHANGED <<ploaded, pexc, pexit>>
    /\ UNCHANGED <<runnerVars, fileVars>>

\* main_impl: if output: print(...)
PEcho(o) ==
    /\ ppc[o] = "loaded"
    /\ o
    /\ pstdout' = [pstdout EXCEPT ![o] = EchoLine(ploaded[o]) \o <<NEWLINE>>]
    /\ ppc' = [ppc EXCEPT ![o] = "echoed"]
    /\ UNCHANGED <<ploaded, pret, pexc, pexit>>
    /\ UNCHANGED <<runnerVars, fileVars>>

\* main_impl: returncode = int(gpu_burn_output["returncode"]); return it.
\* KeyError, TypeError and ValueError are not caught
PReturn(o) ==
    /\ ppc[o] = (IF o THEN "echoed" ELSE "loaded")
    /\ LET r == returncode_of(ploaded[o]) IN
        IF r.ok
        THEN /\ pret' = [pret EXCEPT ![o] = <<r.n>>]
             /\ ppc' = [ppc EXCEPT ![o] = "returned"]
             /\ UNCHANGED <<pexc, pexit>>
        ELSE /\ ppc' = [ppc EXCEPT ![o] = "failed"]
             /\ pexc' = [pexc EXCEPT ![o] = r.exc]
             /\ pexit' = [pexit EXCEPT ![o] = <<1>>]
             /\ UNCHANGED pret
    /\ UNCHANGED <<ploaded, pstdout>>
    /\ UNCHANGED <<runnerVars, fileVars>>

\* main: sys.exit(main_impl(args))
PExit(o) ==
    /\ ppc[o] = "returned"
    /\ pexit' = [pexit EXCEPT ![o] = <<ExitStatus(pret[o][1])>>]
    /\ ppc' = [ppc EXCEPT ![o] = "exited"]
    /\ UNCHANGED <<ploaded, pstdout, pret, pexc>>
    /\ UNCHANGED <<runnerVars, fileVars>>

(***************************************************************************)
(* The specification.                                                      *)
(***************************************************************************)
Init ==
    /\ fs = [dir |-> FALSE, binary |-> FALSE, ptx |-> FALSE]
    /\ cwd \in StartDirs
    /\ rpc = "start"
    /\ savedCwd = <<>>
    /\ cwdTrace = {}
    /\ time_secs = 0
    /\ gpu_burn_arguments = <<>>
    /\ timeout_threshold_secs = 0
    /\ childState = "none"
    /\ childRuntime = 0
    /\ childOut = NoResult
    /\ elapsed = 0
    /\ launches = 0
    /\ result = NoResult
    /\ exc = NoExc
    /\ rstdout = <<>>
    /\ rexit = <<>>
    /\ fileSrc = "none"
    /\ record = JNull
    /\ file = <<>>
    /\ ppc = [o \in BOOLEAN |-> "start"]
    /\ ploaded = [o \in BOOLEAN |-> JNull]
    /\ pstdout = [o \in BOOLEAN |-> <<>>]
    /\ pret = [o \in BOOLEAN |-> <<>>]
    /\ pexc = [o \in BOOLEAN |-> "none"]
    /\ pexit = [o \in BOOLEAN |-> <<>>]

Next ==
    \/ ParseArgs
    \/ Enter
    \/ Launch
    \/ Tick
    \/ ChildExit
    \/ ChildOutputUndecodable
    \/ TimeoutExpired
    \/ Except
    \/ Finally
    \/ PrintOutput
    \/ WriteFile
    \/ \E o \in BOOLEAN : PLoad(o)
    \/ \E o \in BOOLEAN : PEcho(o)
    \/ \E o \in BOOLEAN : PReturn(o)
    \/ \E o \in BOOLEAN : PExit(o)

Spec == Init /\ [][Next]_vars

(***************************************************************************)
(* Properties.                                                             *)
(***************************************************************************)
Flags == BOOLEAN

\* the input file encodes a record whose returncode is an integer in 0..255
WellFormedRecord ==
    /\ fileSrc \in {"test", "runner", "odd"}
    /\ record.t = "obj"
    /\ HasKey(record.items, RETURNCODE)
    /\ Lookup(record.items, RETURNCODE).t = "int"
    /\ Lookup(record.items, RETURNCODE).n \in 0..255

RecordCode == Lookup(record.items, RETURNCODE).n

\* C1: for every well-formed input record whose returncode is an integer in
\* 0..255, whatever its other fields, the Parser does not fail, the record
\* it decoded carries the same returncode, main_impl returns that value,
\* and main exits (SystemExit of main_impl's value) with that status.
C1_ParserForwardsReturncode ==
    WellFormedRecord =>
        \A o \in Flags :
            /\ ppc[o] # "failed"
            /\ ppc[o] \in {"loaded", "echoed", "returned", "exited"} =>
                /\ ploaded[o].t = "obj"
                /\ HasKey(ploaded[o].items, RETURNCODE)
                /\ Lookup(ploaded[o].items, RETURNCODE) = JInt(RecordCode)
            /\ ppc[o] \in {"returned", "exited"} => pret[o] = <<RecordCode>>
            /\ ppc[o] = "exited" => pexit[o] = <<RecordCode>>

\* a test record with returncode 124 and a double quote as stdout went
\* through the Parser, which exited with 124
C1_Witness ==
    /\ fileSrc = "test"
    /\ WellFormedRecord
    /\ RecordCode = 124
    /\ Lookup(record.items, <<"s", "t", "d", "o", "u", "t">>).s = <<QUOTE>>
    /\ ppc[FALSE] = "exited"
    /\ pexit[FALSE] = <<124>>

\* C2: once execute_gpu_burn has handed control back (it returned, or its
\* exception left it), the working directory is the one recorded at entry,
\* and from entry on the working directory only ever is that directory or
\* the gpu_burn path.
C2_CwdRestored ==
    /\ rpc \in {"returned", "done"} => cwd = savedCwd[1]
    /\ (rpc = "aborted" /\ savedCwd # <<>>) => cwd = savedCwd[1]
    /\ savedCwd # <<>> =>
        /\ cwd \in cwdTrace
        /\ cwdTrace \subseteq {savedCwd[1], GPU_BURN_ROOT}

\* launching the child threw, the directory had been changed, and the
\* error left execute_gpu_burn with the directory restored
C2_Witness ==
    /\ rpc = "aborted"
    /\ exc.type = "RuntimeError"
    /\ savedCwd = <<"/home">>
    /\ cwdTrace = {"/home", GPU_BURN_ROOT}
    /\ cwd = "/home"

\* C3: the child runs under a timeout of exactly 2 * time_secs; a child
\* still running when that time has passed is killed and run_shell_command
\* returns normally with stdout "", a non-empty stderr and returncode 0; a
\* child that ends before the bound yields its own stdout, stderr and
\* returncode.
C3_TimeoutIsTwiceDuration ==
    /\ rpc \in {"running", "collected"} => timeout_threshold_secs = 2 * time_secs
    /\ childState = "killed" =>
        /\ rpc \in {"collected", "returned", "done"}
        /\ exc = NoExc
        /\ result.stdout = <<>>
        /\ result.stderr # <<>>
        /\ result.returncode = 0
    /\ (childState = "killed" /\ rpc = "collected") =>
        /\ elapsed >= 2 * time_secs
        /\ childRuntime >= 2 * time_secs
    /\ (childState = "exited" /\ rpc \in {"collected", "returned", "done"}) =>
        result = childOut
    /\ (childState = "exited" /\ rpc = "collected") =>
        /\ elapsed = childRuntime
        /\ childRuntime <= 2 * time_secs
    /\ (rpc = "collected" /\ childRuntime < 2 * time_secs) => childState = "exited"
    /\ (rpc = "collected" /\ childRuntime > 2 * time_secs) => childState = "killed"

\* with a duration of 1 a child needing 3 seconds was killed after 2
C3_Witness ==
    /\ rpc = "collected"
    /\ childState = "killed"
    /\ time_secs = 1
    /\ childRuntime = 3
    /\ elapsed = 2
    /\ result = TimeoutResult(2)

\* the first thing validation misses
FirstMissing(f) ==
    IF ~f.dir THEN "folder"
    ELSE IF ~f.binary THEN "binary"
    ELSE IF ~f.ptx THEN "compare.ptx"
    ELSE "nothing"

MissingMsg(item) ==
    CASE item = "folder" -> "The gpu_burn folder does not exist"
      [] item = "binary" -> "The gpu_burn binary is not found"
      [] item = "compare.ptx" -> "The compare.ptx file is not found"
      [] OTHER -> ""

\* C4: when the root directory, the gpu_burn binary or compare.ptx is
\* missing, the Runner aborts with no child started and the working
\* directory never changed, the error names the first missing item, the
\* three errors differ from each other, and validation changes nothing
\* else.
C4_ValidationFailsFast ==
    /\ (rpc # "start" /\ FirstMissing(fs) # "nothing") =>
        /\ rpc = "aborted"
        /\ exc.type = "FileNotFoundError"
        /\ exc.msg = MissingMsg(FirstMissing(fs))
        /\ launches = 0
        /\ childState = "none"
        /\ savedCwd = <<>>
        /\ cwdTrace = {}
        /\ rstdout = <<>>
    /\ rpc = "validated" =>
        /\ launches = 0
        /\ childState = "none"
        /\ savedCwd = <<>>
        /\ cwdTrace = {}
        /\ rstdout = <<>>
        /\ fileSrc = "none"
    /\ launches > 0 => FirstMissing(fs) = "nothing"
    /\ \A f, g \in FsStates :
        valid_gpu_burn_path(f) = valid_gpu_burn_path(g)
            <=> FirstMissing(f) = FirstMissing(g)

\* the directory and the binary are there, compare.ptx is not, and the
\* Runner aborted saying so
C4_Witness ==
    /\ rpc = "aborted"
    /\ fs = [dir |-> TRUE, binary |-> TRUE, ptx |-> FALSE]
    /\ exc.msg = "The compare.ptx file is not found"
    /\ launches = 0

\* C5: once the Parser has ended on the same file both with -o and without,
\* the two runs ended the same way: the same return value, the same exit
\* status, the same exception; the run without -o printed nothing.
C5_EchoFlagKeepsExitCode ==
    /\ pstdout[FALSE] = <<>>
    /\ (ppc[TRUE] \in {"exited", "failed"} /\ ppc[FALSE] \in {"exited", "failed"}) =>
        /\ ppc[TRUE] = ppc[FALSE]
        /\ pret[TRUE] = pret[FALSE]
        /\ pexit[TRUE] = pexit[FALSE]
        /\ pexc[TRUE] = pexc[FALSE]

\* both runs exited with 124 and only the run with -o printed
C5_Witness ==
    /\ ppc[TRUE] = "exited"
    /\ ppc[FALSE] = "exited"
    /\ pexit[TRUE] = <<124>>
    /\ pexit[FALSE] = <<124>>
    /\ pstdout[TRUE] # <<>>
    /\ pstdout[FALSE] = <<>>

\* every double quote of txt is escaped: an odd number of backslashes
\* stands before it (a backslash that is itself escaped escapes nothing)
NoUnescapedQuote(txt) ==
    \A i \in 1..Len(txt) :
        txt[i] = QUOTE => BackslashRun(txt, 1, i) % 2 = 1

\* C6: the line the Parser echoes under -o contains no unescaped double
\* quote, for every record, also those whose strings hold double quotes or
\* backslashes.
C6_EchoHasNoUnescapedQuote ==
    \A o \in Flags : NoUnescapedQuote(pstdout[o])

\* C7 as stated: whenever the Runner has ended, its exit status is 0.
C7_RunnerExitAlwaysZero ==
    rexit # <<>> => rexit = <<0>>

\* the keys of a dict, in order
RECURSIVE KeysFrom(_, _)
KeysFrom(members, i) ==
    IF i > Len(members) THEN <<>> ELSE <<members[i].k>> \o KeysFrom(members, i + 1)

OutputKeys ==
    << <<"g", "p", "u", "_", "b", "u", "r", "n", "_", "t", "i", "m", "e">>,
       <<"g", "p", "u", "_", "b", "u", "r", "n", "_", "a", "r", "g", "u", "m",
         "e", "n", "t", "s">>,
       <<"s", "t", "d", "o", "u", "t">>,
       <<"s", "t", "d", "e", "r", "r">>,
       RETURNCODE >>

\* C7, amended: the Runner ends with status 0 exactly when it has printed
\* its record, one JSON object of the five keys whose returncode is the
\* child's code (0 after a timeout); when it ends otherwise (validation,
\* chdir or the launch failed) it has printed nothing and its status is 1,
\* that of an uncaught exception.  The child's code is never the status.
C7_ExitZeroWhenRecordPrinted ==
    /\ rexit # <<>> <=> rpc \in {"done", "aborted"}
    /\ rpc = "done" =>
        /\ rexit = <<0>>
        /\ childState \in {"exited", "killed"}
        /\ LET r == loads(rstdout) IN
            /\ r.ok
            /\ r.val.t = "obj"
            /\ KeysFrom(r.val.items, 1) = OutputKeys
            /\ Lookup(r.val.items, RETURNCODE) = JInt(result.returncode)
        /\ childState = "exited" => result.returncode = childOut.returncode
    /\ rpc = "aborted" =>
        /\ rexit = <<1>>
        /\ rstdout = <<>>
        /\ exc.type # "none"
    /\ rpc # "done" => rstdout = <<>>

\* the child exited with 255 and the Runner printed the record and ended
\* with status 0
C7_Witness ==
    /\ rpc = "done"
    /\ childState = "exited"
    /\ childOut.returncode = 255
    /\ rexit = <<0>>
    /\ rstdout # <<>>

\* C8 as stated: on a file that is not JSON, or a JSON object without
\* returncode, main_impl returns nothing, the Parser fails, and it has
\* written nothing to stdout.
C8_MalformedFailsWithNoOutput ==
    \A o \in Flags :
        fileSrc \in {"invalid", "lacking"} =>
            /\ ppc[o] \notin {"returned", "exited"}
            /\ pret[o] = <<>>
            /\ pstdout[o] = <<>>

\* C8, amended: on a file that is not JSON, or a JSON object without
\* returncode, main_impl returns nothing and the Parser ends with the
\* uncaught error (JSONDecodeError, KeyError) and status 1; it has written
\* nothing to stdout, except that under -o an object without returncode is
\* echoed before the KeyError is raised.
C8_MalformedFails ==
    \A o \in Flags :
        fileSrc \in {"invalid", "lacking"} =>
            /\ ppc[o] \notin {"returned", "exited"}
            /\ pret[o] = <<>>
            /\ ppc[o] = "failed" =>
                /\ pexit[o] = <<1>>
                /\ pexc[o] = (IF fileSrc = "invalid" THEN "JSONDecodeError"
                              ELSE "KeyError")
            /\ fileSrc = "invalid" => ppc[o] \in {"start", "failed"}
            /\ (fileSrc = "invalid" \/ ~o) => pstdout[o] = <<>>
            /\ (fileSrc = "lacking" /\ o /\ ppc[o] = "failed") =>
                pstdout[o] = EchoLine(record) \o <<NEWLINE>>

\* under -o an object without returncode was echoed and the Parser then
\* failed with KeyError
C8_Witness ==
    /\ fileSrc = "lacking"
    /\ ppc[TRUE] = "failed"
    /\ pexc[TRUE] = "KeyError"
    /\ pstdout[TRUE] # <<>>
    /\ pret[TRUE] = <<>>

\* C9: the only failure the Runner recovers from is the timeout.  Another
\* error of starting or running the child is re-raised as RuntimeError,
\* reaches the caller with the working directory restored, no record is
\* printed then, and subprocess.run is never called a second time; a record
\* is printed only for a child that ended by itself or was timed out.
C9_OnlyTimeoutRecovered ==
    /\ launches <= 1
    /\ rpc = "raised" => exc.type \in {"OSError", "UnicodeDecodeError"}
    /\ exc.type = "RuntimeError" =>
        /\ exc.cause \in {"OSError", "UnicodeDecodeError"}
        /\ rpc \in {"wrapped", "aborted"}
    /\ (rpc = "aborted" /\ launches = 1) =>
        /\ exc.type = "RuntimeError"
        /\ cwd = savedCwd[1]
        /\ rexit = <<1>>
    /\ exc.type # "none" =>
        /\ rpc \in {"raised", "wrapped", "aborted"}
        /\ rstdout = <<>>
        /\ fileSrc # "runner"
    /\ rpc \in {"collected", "returned", "done"} =>
        \/ childState = "killed" /\ result = TimeoutResult(timeout_threshold_secs)
        \/ childState = "exited" /\ result = childOut

\* starting the child raised OSError and the Runner ended with the
\* RuntimeError made of it, after one call of subprocess.run
C9_Witness ==
    /\ rpc = "aborted"
    /\ exc.type = "RuntimeError"
    /\ exc.cause = "OSError"
    /\ launches = 1
    /\ cwd = savedCwd[1]
    /\ rstdout = <<>>

\* C10: the Parser fed the Runner's record never fails; after a timeout it
\* exits with 0, as it does for a child that exited with 0 (the record then
\* has an empty stdout and the diagnostic as stderr); for a child that
\* exited with a code in 0..255 it exits with that code.
C10_TimeoutExitsZero ==
    \A o \in Flags :
        fileSrc = "runner" =>
            /\ ppc[o] # "failed"
            /\ (ppc[o] = "exited" /\ childState = "killed") =>
                /\ pexit[o] = <<0>>
                /\ Lookup(ploaded[o].items, <<"s", "t", "d", "o", "u", "t">>) = JStr(<<>>)
                /\ Lookup(ploaded[o].items, <<"s", "t", "d", "e", "r", "r">>)
                       = JStr(error_msg(2 * time_secs))
            /\ (ppc[o] = "exited" /\ childState = "exited"
                    /\ childOut.returncode \in 0..255) =>
                pexit[o] = <<childOut.returncode>>

\* the child was timed out and the Parser, reading the Runner's record,
\* exited with 0
C10_Witness ==
    /\ fileSrc = "runner"
    /\ childState = "killed"
    /\ ppc[TRUE] = "exited"
    /\ pexit[TRUE] = <<0>>

=============================================================================
